---- MODULE Spec2Model ----
(***************************************************************************)
(* Model of process.py: the incremental member-roster pipeline.            *)
(*                                                                         *)
(* One invocation of CLI.run is one atomic step (the program is single-    *)
(* threaded and synchronous).  The durable state is the roster file given  *)
(* as input and the pickle cache last_join_date.pkl; `run` records the     *)
(* locals and the observable effects of the most recent invocation.        *)
(* Timestamps are abstracted to small positive integers, a date string to  *)
(* the pair (layout it is written in, instant it denotes).                 *)
(***************************************************************************)
EXTENDS Integers, Sequences, FiniteSets

VARIABLES csv_file, cache_file, run, emitted

vars == <<csv_file, cache_file, run, emitted>>

-----------------------------------------------------------------------------
(* Bounds *)

MaxTime == 3
MaxRows == 2
MaxAnswers == 2

Times == 1..MaxTime

-----------------------------------------------------------------------------
(* Values *)

\* Python's None; every datetime is truthy, None is falsy.
None == 0

\* A value unpickled from the cache that is not a datetime (e.g. a str).
Foreign == -1

Truthy(v) == v # None

\* FileHandler.parse_date.date_formats, in priority order.
date_formats == << "%Y-%m-%d %H:%M:%S",
                   "%Y-%m-%dT%H:%M:%S.%fZ",
                   "%Y-%m-%dT%H:%M:%SZ",
                   "%Y-%m-%d" >>

\* A date string: the layout it is written in and the instant it denotes.
DateString(layout, t) == [layout |-> layout, t |-> t]

\* A string that matches none of the accepted formats.
BadString == DateString("%d/%m/%Y", 1)

\* Date strings appearing in roster rows and typed at the prompt: one
\* layout per instant (cycling through the accepted ones), and a bad one.
RowStrings ==
    {DateString(date_formats[((t - 1) % 4) + 1], t) : t \in Times} \cup {BadString}

\* Date strings given with -t/--timestamp: the same instants, written in
\* the next layout of the list.
ArgStrings ==
    {DateString(date_formats[(t % 4) + 1], t) : t \in Times} \cup {BadString}


\* Contents of the cache file.
\*   absent    no file
\*   datetime  a pickled datetime (what save_last_join_date writes)
\*   bad_key   zero bytes, or e.g. b'{"a":1}': pickle.load raises EOFError,
\*             respectively UnpicklingError
\*   bad_int   e.g. b"garbage\n":  pickle.load raises ValueError
\*   str       a pickled str:      pickle.load returns a non-datetime
CacheAbsent == [kind |-> "absent", t |-> None]
CacheDatetime(t) == [kind |-> "datetime", t |-> t]
CorruptKinds == {"bad_key", "bad_int", "str"}
CacheCorrupt(k) == [kind |-> k, t |-> None]

\* One round of the interactive prompt: the menu choice and, if the choice
\* is "1", the timestamp text typed next.
Answer(choice, text) == [choice |-> choice, text |-> text]
Answers ==
    {Answer("1", s) : s \in RowStrings} \cup {Answer("2", BadString), Answer("x", BadString)}

\* An answer that ends the prompt loop: "2", or "1" with a valid timestamp.
Ends(a) == a.choice = "2" \/ (a.choice = "1" /\ a.text # BadString)

\* What the operator types before end of input: nothing is typed after the
\* answer that ends the prompt.
Stdins ==
    {s \in UNION {[1..n -> Answers] : n \in 0..MaxAnswers} :
        \A i \in 1..(Len(s) - 1) : ~Ends(s[i])}

-----------------------------------------------------------------------------
(* FileHandler *)

\* datetime.strptime(date_str, fmt)
strptime(date_str, fmt) ==
    IF date_str.layout = fmt
    THEN [ok |-> TRUE, value |-> date_str.t]
    ELSE [ok |-> FALSE, value |-> None]

RECURSIVE try_formats(_, _)
try_formats(date_str, i) ==
    IF i > Len(date_formats)
    THEN [ok |-> FALSE, value |-> None]
    ELSE IF strptime(date_str, date_formats[i]).ok
         THEN strptime(date_str, date_formats[i])
         ELSE try_formats(date_str, i + 1)

\* FileHandler.parse_date: first format that matches, else ValueError.
parse_date(date_str) == try_formats(date_str, 1)

\* Member: `row` stands for the identifying fields of the row.
Member(i, t) == [row |-> i, join_date |-> t]

RECURSIVE parse_rows(_, _, _)
parse_rows(rows, i, members) ==
    IF i > Len(rows)
    THEN [ok |-> TRUE, members |-> members]
    ELSE LET join_date == parse_date(rows[i])
         IN  IF ~join_date.ok
             THEN [ok |-> FALSE, members |-> <<>>]
             ELSE parse_rows(rows, i + 1,
                             Append(members, Member(i, join_date.value)))

\* Variant: a row whose date does not parse is skipped (best-effort import).
parse_members_skipping(rows) ==
    [ok |-> TRUE,
     members |-> SelectSeq([i \in 1..Len(rows) |->
                               Member(i, IF parse_date(rows[i]).ok
                                         THEN parse_date(rows[i]).value ELSE None)],
                           LAMBDA m : Truthy(m.join_date))]

\* FileHandler.parse_members: all rows, or ValueError at the first bad row.
parse_members(rows) == parse_rows(rows, 1, <<>>)

-----------------------------------------------------------------------------
(* CacheHandler *)

\* CacheHandler.load_last_join_date: what pickle.load does with each content.
\* Only UnpicklingError and EOFError are caught (warning, None); any other
\* exception propagates to the caller.
load_last_join_date(cache) ==
    CASE cache.kind = "absent"   -> [exc |-> "", value |-> None, warned |-> FALSE]
      [] cache.kind = "datetime" -> [exc |-> "", value |-> cache.t, warned |-> FALSE]
      [] cache.kind = "bad_key"  -> [exc |-> "", value |-> None, warned |-> TRUE]
      [] cache.kind = "bad_int"  -> [exc |-> "ValueError", value |-> None, warned |-> FALSE]
      [] cache.kind = "str"      -> [exc |-> "", value |-> Foreign, warned |-> FALSE]

\* CacheHandler.save_last_join_date: the file now holds the pickled datetime.
save_last_join_date(join_date) == CacheDatetime(join_date)

-----------------------------------------------------------------------------
(* MemberProcessor *)

RECURSIVE prompt_loop(_, _)
prompt_loop(stdin, i) ==
    IF i > Len(stdin)
    THEN [exc |-> "EOFError", value |-> None, prompts |-> i]
    ELSE IF stdin[i].choice = "1"
         THEN IF parse_date(stdin[i].text).ok
              THEN [exc |-> "", value |-> parse_date(stdin[i].text).value, prompts |-> i]
              ELSE prompt_loop(stdin, i + 1)
         ELSE IF stdin[i].choice = "2"
              THEN [exc |-> "", value |-> None, prompts |-> i]
              ELSE prompt_loop(stdin, i + 1)

\* MemberProcessor.get_user_reference_date: loops until a timestamp parses
\* or "2" is chosen; input() raises EOFError when the operator's input ends.
get_user_reference_date(stdin) == prompt_loop(stdin, 1)

\* The locals and effects of process() before anything has happened.
Start(cache) ==
    [error |-> "", all_members |-> <<>>, source |-> "none",
     reference_date |-> None, filtered |-> FALSE, filtered_members |-> <<>>,
     returned |-> FALSE, loads |-> 0, warnings |-> 0, prompts |-> 0,
     saves |-> 0, cache |-> cache]

\* Variant: the cache is consulted first and wins over the provided date.
resolve_reference_cache_first(p, provided, stdin) ==
    LET loaded == load_last_join_date(p.cache)
        p1 == [p EXCEPT !.loads = 1,
                        !.warnings = IF loaded.warned THEN 1 ELSE 0]
    IN  IF loaded.exc = "" /\ loaded.value \in Times
        THEN [p1 EXCEPT !.source = "cache", !.reference_date = loaded.value]
        ELSE IF Truthy(provided)
             THEN [p1 EXCEPT !.source = "provided", !.reference_date = provided]
             ELSE [p1 EXCEPT !.error = "EOFError"]

\* process(), lines 133-142: provided date, else cached date, else prompt.
resolve_reference(p, provided, stdin) ==
    IF Truthy(provided)
    THEN [p EXCEPT !.source = "provided", !.reference_date = provided]
    ELSE LET loaded == load_last_join_date(p.cache)
             p1 == [p EXCEPT !.loads = 1,
                             !.warnings = IF loaded.warned THEN 1 ELSE 0]
         IN  IF loaded.exc # ""
             THEN [p1 EXCEPT !.error = loaded.exc]
             ELSE IF Truthy(loaded.value)
                  THEN IF loaded.value = Foreign
                       \* reference_date.isoformat() on a non-datetime
                       THEN [p1 EXCEPT !.error = "AttributeError"]
                       ELSE [p1 EXCEPT !.source = "cache",
                                       !.reference_date = loaded.value]
                  ELSE LET asked == get_user_reference_date(stdin)
                       IN  IF asked.exc # ""
                           THEN [p1 EXCEPT !.prompts = asked.prompts,
                                           !.error = asked.exc]
                           ELSE [p1 EXCEPT !.source = "prompt",
                                           !.prompts = asked.prompts,
                                           !.reference_date = asked.value]

\* Variant: non-strict comparison.
IsNewerOrEqual(m, reference_date) == m.join_date >= reference_date

\* m.join_date > reference_date, line 145
IsNewer(m, reference_date) == m.join_date > reference_date

\* process(), lines 144-151.
filter_members(p) ==
    [p EXCEPT !.filtered = TRUE,
              !.filtered_members =
                  IF Truthy(p.reference_date)
                  THEN SelectSeq(p.all_members,
                                 LAMBDA m : IsNewer(m, p.reference_date))
                  ELSE p.all_members]

\* Variant: the earliest instead of the latest join date.
min_join_date(members) ==
    CHOOSE t \in {members[i].join_date : i \in 1..Len(members)} :
        \A i \in 1..Len(members) : members[i].join_date >= t

\* max(m.join_date for m in members), members non-empty
max_join_date(members) ==
    CHOOSE t \in {members[i].join_date : i \in 1..Len(members)} :
        \A i \in 1..Len(members) : members[i].join_date <= t

\* Variant: the reference in effect is saved, not the latest join date; an
\* empty result saves it too.
update_cache_saves_reference(p) ==
    IF Truthy(p.reference_date)
    THEN [p EXCEPT !.saves = p.saves + 1,
                   !.cache = save_last_join_date(p.reference_date),
                   !.returned = TRUE]
    ELSE [p EXCEPT !.returned = TRUE]

\* Variant: the latest join date is computed but never persisted.
update_cache_without_save(p) ==
    [p EXCEPT !.returned = TRUE]

\* process(), lines 153-160.
update_cache(p) ==
    IF p.filtered_members # <<>>
    THEN [p EXCEPT !.saves = p.saves + 1,
                   !.cache = save_last_join_date(max_join_date(p.filtered_members)),
                   !.returned = TRUE]
    ELSE [p EXCEPT !.returned = TRUE]

\* Opening the input, lines 120-128.
InputOk == {"csv", "zip"}
InputErrors == {"unsupported", "csv_missing", "bad_zip", "zip_without_csv"}

open_input(input) ==
    CASE input \in InputOk -> ""
      [] input = "unsupported" -> "ValueError"
      [] input = "csv_missing" -> "FileNotFoundError"
      [] input = "bad_zip" -> "ValueError"
      [] input = "zip_without_csv" -> "FileNotFoundError"

\* MemberProcessor.process
process(input, rows, cache, provided, stdin) ==
    IF open_input(input) # ""
    THEN [Start(cache) EXCEPT !.error = open_input(input)]
    ELSE LET all_members == parse_members(rows)
         IN  IF ~all_members.ok
             THEN [Start(cache) EXCEPT !.error = "ValueError"]
             ELSE LET p1 == [Start(cache) EXCEPT !.all_members = all_members.members]
                      p2 == resolve_reference(p1, provided, stdin)
                  IN  IF p2.error # ""
                      THEN p2
                      ELSE update_cache(filter_members(p2))

-----------------------------------------------------------------------------
(* CLI *)

\* member.join_date.strftime("%Y-%m-%dT%H:%M:%SZ")
strftime(t) == DateString("%Y-%m-%dT%H:%M:%SZ", t)

RECURSIVE insert_desc(_, _)
\* insert m after every element whose key is >= its own (stable, descending)
insert_desc(sorted, m) ==
    IF sorted = <<>> THEN <<m>>
    ELSE IF Head(sorted).join_date >= m.join_date
         THEN <<Head(sorted)>> \o insert_desc(Tail(sorted), m)
         ELSE <<m>> \o sorted

RECURSIVE sort_desc(_, _)
sort_desc(members, acc) ==
    IF members = <<>> THEN acc
    ELSE sort_desc(Tail(members), insert_desc(acc, Head(members)))

\* sorted(members, key=lambda m: m.join_date, reverse=True)
members_sorted(members) == sort_desc(members, <<>>)

\* CLI.write_output: the rows written (header aside).
write_output(members) ==
    LET sorted == members_sorted(members)
    IN  [i \in 1..Len(members) |->
            [row |-> sorted[i].row, join_date |-> strftime(sorted[i].join_date)]]

\* No -t option (None, or the empty string: both are falsy in `if args.timestamp`).
NoArg == DateString("", None)

\* What is known of the run that directly preceded this one, if it succeeded.
NoPrev == [ok |-> FALSE, source |-> "none", nonempty |-> FALSE]

NoRun ==
    [ran |-> FALSE, exit |-> 0, error |-> "", provided |-> None,
     all_members |-> <<>>, source |-> "none", reference_date |-> None,
     filtered |-> FALSE, filtered_members |-> <<>>, returned |-> FALSE,
     loads |-> 0, warnings |-> 0, prompts |-> 0, saves |-> 0,
     wrote |-> FALSE, output |-> <<>>,
     cache_before |-> CacheAbsent, emitted_before |-> {}, prev |-> NoPrev]

Rows(members) == {members[i].row : i \in 1..Len(members)}

\* CLI.run, as a function of the arguments and the environment.
\* write_fails: the output file cannot be opened for writing (IOError).
\* For a run in which process() returns, the record also keeps what the
\* properties need of the past: the rows reported so far and the outcome of
\* the directly preceding run.
cli_run(timestamp, input, stdin, write_fails, prev_run, rows, cache, seen) ==
    LET base == [NoRun EXCEPT !.ran = TRUE, !.cache_before = cache]
        past == [emitted_before |-> seen,
                 prev |-> IF prev_run.ran /\ prev_run.exit = 0
                          THEN [ok |-> TRUE,
                                source |-> prev_run.source,
                                nonempty |-> prev_run.filtered_members # <<>>]
                          ELSE NoPrev]
    IN  IF timestamp.layout # "" /\ ~parse_date(timestamp).ok
        THEN [run |-> [base EXCEPT !.exit = 1, !.error = "InvalidTimestamp"],
              cache |-> cache]
        ELSE
        LET provided == IF timestamp.layout # "" THEN parse_date(timestamp).value
                        ELSE None
            p == process(input, rows, cache, provided, stdin)
            r == [base EXCEPT !.provided = provided,
                              !.emitted_before = IF p.returned THEN past.emitted_before
                                                 ELSE {},
                              !.prev = IF p.returned THEN past.prev ELSE NoPrev,
                              !.error = p.error,
                              !.all_members = p.all_members,
                              !.source = p.source,
                              !.reference_date = p.reference_date,
                              !.filtered = p.filtered,
                              !.filtered_members = p.filtered_members,
                              !.returned = p.returned,
                              !.loads = p.loads,
                              !.warnings = p.warnings,
                              !.prompts = p.prompts,
                              !.saves = p.saves]
        IN  IF p.error # ""
            THEN [run |-> [r EXCEPT !.exit = 1], cache |-> p.cache]
            ELSE IF write_fails
                 THEN [run |-> [r EXCEPT !.exit = 1, !.error = "IOError"],
                       cache |-> p.cache]
                 ELSE [run |-> [r EXCEPT !.wrote = TRUE,
                                         !.output = write_output(p.filtered_members)],
                       cache |-> p.cache]

-----------------------------------------------------------------------------
(* Actions *)

Init ==
    /\ csv_file = <<>>
    /\ cache_file = CacheAbsent
    /\ run = NoRun
    /\ emitted = {}

\* One invocation of the program.  `emitted` collects the rows reported by
\* successful invocations without -t since the roster was last replaced or
\* the cache last tampered with.
Run(timestamp, input, stdin, write_fails) ==
    \* the operator types only when asked
    /\ stdin # <<>> => /\ load_last_join_date(cache_file).exc = ""
                       /\ ~Truthy(load_last_join_date(cache_file).value)
    /\ \E res \in {cli_run(timestamp, input, stdin, write_fails,
                            run, csv_file, cache_file, emitted)} :
           \* the output file is opened only if process() returned
           /\ write_fails => res.run.returned
           /\ run' = res.run
           /\ cache_file' = res.cache
           /\ emitted' = IF timestamp.layout # "" THEN {}
                         ELSE IF res.run.exit = 0
                              THEN emitted \cup Rows(res.run.filtered_members)
                              ELSE emitted
           /\ UNCHANGED csv_file

\* The export grows: a row is added at the end of the roster.
AppendRow(s) ==
    /\ Len(csv_file) < MaxRows
    /\ csv_file' = Append(csv_file, s)
    /\ run' = NoRun
    /\ UNCHANGED <<cache_file, emitted>>

\* A different export is supplied: it starts with no data rows and grows by
\* AppendRow.
ReplaceRoster ==
    /\ csv_file # <<>>
    /\ csv_file' = <<>>
    /\ run' = NoRun
    /\ emitted' = {}
    /\ UNCHANGED cache_file

\* The cache file is removed.
DeleteCache ==
    /\ cache_file # CacheAbsent
    /\ cache_file' = CacheAbsent
    /\ run' = NoRun
    /\ emitted' = {}
    /\ UNCHANGED csv_file

\* The cache file is damaged or replaced by something that is not a
\* pickled datetime.
CorruptCache(k) ==
    /\ cache_file # CacheCorrupt(k)
    /\ cache_file' = CacheCorrupt(k)
    /\ run' = NoRun
    /\ emitted' = {}
    /\ UNCHANGED csv_file

Next ==
    \/ \E stdin \in Stdins, write_fails \in BOOLEAN :
          Run(NoArg, "csv", stdin, write_fails)
    \/ \E timestamp \in ArgStrings, write_fails \in BOOLEAN :
          Run(timestamp, "csv", <<>>, write_fails)
    \/ \E input \in {"zip"} \cup InputErrors : Run(NoArg, input, <<>>, FALSE)
    \/ \E s \in RowStrings : AppendRow(s)
    \/ ReplaceRoster
    \/ DeleteCache
    \/ \E k \in CorruptKinds : CorruptCache(k)

Spec == Init /\ [][Next]_vars

-----------------------------------------------------------------------------
(* Properties.  `run` is reset whenever the roster or the cache is changed   *)
(* from outside, so in a state with run.ran the files are as the run left    *)
(* them.                                                                     *)

Succeeded == run.ran /\ run.exit = 0

\* The instant a roster row denotes (None if no accepted format parses it).
RowDate(i) ==
    IF \E k \in 1..Len(date_formats) : csv_file[i].layout = date_formats[k]
    THEN csv_file[i].t ELSE None

FilteredDates == {run.filtered_members[i].join_date : i \in 1..Len(run.filtered_members)}

\* C1: after every successful run, with or without an explicit timestamp,
\* the cached timestamp is not less than the one cached before the run.
C1_CacheNeverMovesBackward ==
    (Succeeded /\ run.cache_before.kind = "datetime")
        => (cache_file.kind = "datetime" /\ cache_file.t >= run.cache_before.t)

\* C2: the members process() returns are exactly the roster rows whose join
\* date is strictly greater than the reference in effect, each once and in
\* roster order; with no reference in effect they are all the rows.
C2_FilteredExactlyNewer ==
    run.returned =>
        /\ Rows(run.filtered_members) =
              {i \in 1..Len(csv_file) :
                  Truthy(run.reference_date) => RowDate(i) > run.reference_date}
        /\ \A k \in 1..Len(run.filtered_members) :
              run.filtered_members[k].join_date = RowDate(run.filtered_members[k].row)
        /\ \A j, k \in 1..Len(run.filtered_members) :
              j < k => run.filtered_members[j].row < run.filtered_members[k].row

C2_Witness ==
    /\ run.returned /\ Truthy(run.reference_date)
    /\ \E i \in 1..Len(csv_file) : RowDate(i) = run.reference_date
    /\ run.filtered_members # <<>>
    /\ Len(run.filtered_members) < Len(csv_file)

\* C3 (as stated): a successful run that directly follows a successful run
\* on the same roster returns no member.
C3_SecondRunEmpty ==
    (Succeeded /\ run.prev.ok) => run.filtered_members = <<>>

\* C3 (amended): a successful run given no explicit timestamp that directly
\* follows a successful run on the same roster returns no member, provided
\* the earlier run returned at least one member or took its reference from
\* the cache.
C3_SecondRunEmptyFromCache ==
    (/\ Succeeded /\ run.prev.ok
     /\ run.provided = None
     /\ (run.prev.nonempty \/ run.prev.source = "cache"))
        => run.filtered_members = <<>>

C3_Witness ==
    /\ Succeeded /\ run.prev.ok /\ run.prev.nonempty
    /\ run.provided = None
    /\ run.all_members # <<>>
    /\ run.filtered_members = <<>>

\* C4: a provided timestamp is the reference, without the cache being read
\* or the operator asked; otherwise a cached timestamp is the reference,
\* without the operator being asked; the operator is asked only when no
\* timestamp was provided and the cache load gave none.
C4_ReferencePrecedence ==
    run.ran =>
        /\ Truthy(run.provided) =>
              /\ run.loads = 0 /\ run.prompts = 0
              /\ run.source \in {"none", "provided"}
              /\ run.source = "provided" => run.reference_date = run.provided
        /\ (run.provided = None /\ run.cache_before.kind = "datetime") =>
              /\ run.prompts = 0
              /\ run.source \in {"none", "cache"}
              /\ run.source = "cache" =>
                    (run.loads = 1 /\ run.reference_date = run.cache_before.t)
        /\ run.prompts > 0 =>
              /\ run.provided = None /\ run.loads = 1
              /\ run.cache_before.kind \in {"absent", "bad_key"}

C4_Witness ==
    /\ Succeeded /\ run.source = "provided"
    /\ run.cache_before.kind = "datetime"
    /\ run.cache_before.t # run.provided
    /\ run.filtered_members # <<>>

\* C5: after a successful run that returned at least one member the cache
\* holds the greatest join date among the returned members, written once;
\* no run writes the cache more than once.
C5_CacheIsMaxOfFiltered ==
    /\ run.saves <= 1
    /\ (Succeeded /\ run.filtered_members # <<>>) =>
          /\ run.saves = 1
          /\ cache_file.kind = "datetime"
          /\ cache_file.t \in FilteredDates
          /\ \A t \in FilteredDates : t <= cache_file.t

\* Rows joined at 2 and 3 with explicit reference 2: only the later row is
\* returned and 3 is cached.
C5_Witness ==
    /\ Succeeded /\ run.source = "provided" /\ run.reference_date = 2
    /\ Len(run.all_members) = 2
    /\ run.all_members[1].join_date = 2 /\ run.all_members[2].join_date = 3
    /\ run.filtered_members = <<run.all_members[2]>>
    /\ cache_file = CacheDatetime(3)

\* C6: a run whose filtered set is empty writes nothing to the cache: its
\* content is what it was before the run.
C6_EmptyLeavesCacheUntouched ==
    (run.ran /\ run.filtered /\ run.filtered_members = <<>>)
        => (run.saves = 0 /\ cache_file = run.cache_before)

C6_Witness ==
    /\ Succeeded /\ run.filtered
    /\ run.all_members # <<>> /\ run.filtered_members = <<>>
    /\ run.cache_before.kind = "datetime"

\* C7: whenever the cache file exists but does not hold a
\* timestamp, the load warns, gives no value, and the run goes on to ask the
\* operator.
C7_CorruptCacheIsAbsent ==
    (run.ran /\ run.loads = 1 /\ run.cache_before.kind \in CorruptKinds)
        => (run.warnings = 1 /\ run.prompts >= 1)

\* C8: a roster with a data row whose join date no accepted format parses,
\* wherever the row is, makes the run exit non-zero with no member returned
\* or written and with the cache neither read nor modified.
C8_BadRowAbortsRun ==
    (run.ran /\ \E i \in 1..Len(csv_file) : RowDate(i) = None) =>
        /\ run.exit = 1
        /\ ~run.returned /\ run.filtered_members = <<>>
        /\ ~run.wrote /\ run.output = <<>>
        /\ run.loads = 0 /\ run.saves = 0
        /\ cache_file = run.cache_before

C8_Witness ==
    /\ run.ran /\ run.error = "ValueError"
    /\ Len(csv_file) = 2
    /\ RowDate(1) # None /\ RowDate(2) = None
    /\ run.cache_before.kind = "datetime"

\* C9: a run that ends with an error leaves the cache as it was
\* before the run.
C9_FailedRunLeavesCache ==
    (run.ran /\ run.exit # 0) => cache_file = run.cache_before

\* C10: in a sequence of runs without explicit timestamp over a growing
\* roster, with the cache left alone, a successful run returns no row that
\* an earlier successful run returned, and its reference is not less than
\* the join date of any such row.
C10_NoRowEmittedTwice ==
    (Succeeded /\ run.provided = None) =>
        /\ \A k \in 1..Len(run.filtered_members) :
              run.filtered_members[k].row \notin run.emitted_before
        /\ \A i \in run.emitted_before :
              Truthy(run.reference_date) /\ run.reference_date >= RowDate(i)

C10_Witness ==
    /\ Succeeded /\ run.provided = None
    /\ run.emitted_before # {}
    /\ run.filtered_members # <<>>

====
